---- MODULE Spec2Model ----
(***************************************************************************)
(* A model of pkgviz-go (pkg/pkgviz/pkgviz.go): the package walker, the    *)
(* type classifier, the package tree, the struct-link resolver, the        *)
(* identifier allocator (labelizeName) and the DOT renderer.               *)
(*                                                                         *)
(* Strings are sequences of one-character strings, so that the string      *)
(* operations of the code (Replace, TrimPrefix, Split, ToLower, ...) are   *)
(* computed character by character.                                        *)
(***************************************************************************)
EXTENDS Integers, Sequences, FiniteSets, TLC

VARIABLES
    root,            \* the package id given to WriteGraph
    pc,              \* position in WriteGraph: "start", "build", "print", "links", "done";
                     \* "exit" once the process was ended (os.Exit, log.Fatal, panic)
    imports,         \* go list results obtained so far: package id -> Imports
    stack,           \* the recursion of recursivelyBuildGraph, innermost frame last
    visits,          \* the package ids recursivelyBuildGraph was called on, in order
    tree,            \* byPkg: path of segments -> (typeName -> node)
    dg,              \* the root dotGraphNode: typeNodes and typeInterfaceMethods
    nodeLinks,       \* byPkg.nodeLinks
    out,             \* the text WriteGraph builds, one record per emitted line
    typeIdsPrinted,  \* the set of ids recorded by dotGraphNode.Print
    linkIdx,         \* the next element of byPkg.nodeLinks WriteGraph prints
    lab,             \* inputs and results of labelizeName (specification SpecLabel)
    fld,             \* input and result of the link resolver (specification SpecLinks)
    expected         \* the text of an earlier run, stored as the expected file of
                     \* a snapshot test (specification SpecTwice)

vars == <<root, pc, imports, stack, visits, tree, dg, nodeLinks, out, typeIdsPrinted,
          linkIdx, lab, fld, expected>>

(***************************************************************************)
(* Bounds of the model.                                                    *)
(***************************************************************************)
\* longest type name drawn as an input of labelizeName
MaxNameLen == 2
\* longest import list go list answers with
MaxImports == 3
\* nesting depth of the field types drawn for the link resolver
MaxDepth == 1

(***************************************************************************)
(* Strings.                                                                *)
(***************************************************************************)
Upper == <<"A","B","C","D","E","F","G","H","I","J","K","L","M",
           "N","O","P","Q","R","S","T","U","V","W","X","Y","Z">>
Lower == <<"a","b","c","d","e","f","g","h","i","j","k","l","m",
           "n","o","p","q","r","s","t","u","v","w","x","y","z">>
Digits == {"0","1","2","3","4","5","6","7","8","9"}

Range(s) == {s[i] : i \in DOMAIN s}

Drop(s, n) == SubSeq(s, n + 1, Len(s))

HasPrefix(s, p) == Len(p) <= Len(s) /\ SubSeq(s, 1, Len(p)) = p

TrimPrefix(s, p) == IF HasPrefix(s, p) THEN Drop(s, Len(p)) ELSE s

\* strings.Contains(s, c) for a one-character c
Contains(s, c) == c \in Range(s)

\* strings.Replace(s, old, new, -1): non-overlapping occurrences, left to right
RECURSIVE Replace(_, _, _)
Replace(s, old, new) ==
    IF Len(s) < Len(old) THEN s
    ELSE IF HasPrefix(s, old) THEN new \o Replace(Drop(s, Len(old)), old, new)
    ELSE <<Head(s)>> \o Replace(Tail(s), old, new)

\* strings.Split(s, c) for a one-character c: Split("", c) is one empty string
RECURSIVE SplitFrom(_, _, _)
SplitFrom(s, c, cur) ==
    IF s = <<>> THEN <<cur>>
    ELSE IF Head(s) = c THEN <<cur>> \o SplitFrom(Tail(s), c, <<>>)
    ELSE SplitFrom(Tail(s), c, Append(cur, Head(s)))

Split(s, c) == SplitFrom(s, c, <<>>)

\* strings.Join(parts, sep)
RECURSIVE Join(_, _)
Join(parts, sep) ==
    IF parts = <<>> THEN <<>>
    ELSE IF Len(parts) = 1 THEN parts[1]
    ELSE parts[1] \o sep \o Join(Tail(parts), sep)

ToLowerCh(c) ==
    IF \E i \in DOMAIN Upper : Upper[i] = c
    THEN Lower[CHOOSE i \in DOMAIN Upper : Upper[i] = c]
    ELSE c

\* strings.ToLower
ToLower(s) == [i \in DOMAIN s |-> ToLowerCh(s[i])]

\* all strings over alphabet of length at most n
RECURSIVE StrUpTo(_, _)
StrUpTo(alphabet, n) ==
    IF n = 0 THEN {<<>>}
    ELSE LET shorter == StrUpTo(alphabet, n - 1)
         IN  shorter \cup {Append(s, c) : s \in shorter, c \in alphabet}

(***************************************************************************)
(* The identifier allocator: escapeName and labelizeName.                  *)
(***************************************************************************)
escapeName(name) ==
    LET n1 == Replace(name, <<"*">>, <<>>)
        n2 == Replace(n1, <<"/">>, <<"_","S","L","A","S","H","_">>)
        n3 == Replace(n2, <<"[","]">>, <<"_","A","R","Y","_">>)
        n4 == Replace(n3, <<"{","}">>, <<"_","B","R","A","C","E","S","_">>)
        n5 == Replace(n4, <<",">>, <<"_","C","O","M","M","A","_">>)
        n6 == Replace(n5, <<"(">>, <<"_","L","P","A","R","E","N","S","_">>)
        n7 == Replace(n6, <<")">>, <<"_","R","P","A","R","E","N","S","_">>)
    IN  Replace(n7, <<" ">>, <<>>)

labelizeName(pkgName, typeName) ==
    LET p == escapeName(pkgName)
        t == escapeName(typeName)
        label == IF Contains(t, ".")
                 THEN Replace(t, <<".">>, <<"_","D","O","T","_">>)
                 ELSE Join(<<p, t>>, <<"_">>)
    IN  ToLower(label)

(***************************************************************************)
(* go/types: the types the type checker hands to the program.  A type is   *)
(* a record; a named type is a reference (path, name) whose underlying     *)
(* type is looked up in the declarations, so that types may be recursive.  *)
(***************************************************************************)
NoType == [tag |-> "None"]

Ty(tag, path, name, elem, key, members) ==
    [tag |-> tag, path |-> path, name |-> name, elem |-> elem, key |-> key,
     members |-> members]

TNamed(path, name) == Ty("Named", path, name, NoType, NoType, <<>>)
TBasic(name)       == Ty("Basic", <<>>, name, NoType, NoType, <<>>)
TPointer(e)        == Ty("Pointer", <<>>, <<>>, e, NoType, <<>>)
TSlice(e)          == Ty("Slice", <<>>, <<>>, e, NoType, <<>>)
TArray(e)          == Ty("Array", <<>>, <<>>, e, NoType, <<>>)
TMap(k, e)         == Ty("Map", <<>>, <<>>, e, k, <<>>)
TChan(e)           == Ty("Chan", <<>>, <<>>, e, NoType, <<>>)
\* a member of a struct (a field) or of an interface (an explicit method)
Fld(name, type) == [name |-> name, type |-> type]
\* members of a struct: its fields, in order
TStruct(fields)    == Ty("Struct", <<>>, <<>>, NoType, NoType, fields)
\* members of an interface: its explicit methods
TInterface(ms)     == Ty("Interface", <<>>, <<>>, NoType, NoType, ms)
TSignature         == Ty("Signature", <<>>, <<>>, NoType, NoType, <<>>)

sString == <<"s","t","r","i","n","g">>
sInt    == <<"i","n","t">>
sFunc   == <<"f","u","n","c","(",")">>

\* package import paths
PkgR   == <<"r">>
PkgRA  == <<"r","/","a">>
PkgRAB == <<"r","/","a","/","b">>
PkgX   == <<"x">>
\* a package outside every root, with a dot and a slash in its path; go list
\* is never asked about it, it only supplies field types
PkgExt == <<"e",".","c","/","p">>

\* every package go list can be asked about, in go list's (sorted) order
PkgOrder == <<PkgR, PkgRA, PkgRAB, PkgX>>
AllPkgs  == Range(PkgOrder)

\* the declared types of each package: name -> underlying type
DeclsR ==
    ( <<"A">> :> TStruct(<< Fld(<<"b">>, TPointer(TNamed(PkgR, <<"B">>))),
                            Fld(<<"t">>, TNamed(PkgX, <<"T">>)),
                            Fld(<<"u">>, TNamed(PkgX, <<"T">>)) >>) ) @@
    ( <<"B">> :> TStruct(<< Fld(<<"a">>, TPointer(TNamed(PkgR, <<"A">>))),
                            Fld(<<"d">>, TNamed(PkgRAB, <<"E">>)),
                            Fld(<<"f">>, TNamed(PkgR, <<"F">>)) >>) ) @@
    ( <<"S">> :> TBasic(sString) ) @@
    ( <<"I">> :> TInterface(<< Fld(<<"m">>, TSignature) >>) ) @@
    ( <<"F">> :> TSignature )

DeclsRA ==
    ( <<"S">> :> TBasic(sString) ) @@
    ( <<"D">> :> TStruct(<< Fld(<<"s">>, TNamed(PkgRA, <<"S">>)) >>) ) @@
    ( <<"L">> :> TSlice(TBasic(sString)) )

DeclsRAB ==
    ( <<"N">> :> TBasic(sInt) ) @@
    ( <<"E">> :> TStruct(<< Fld(<<"n">>, TNamed(PkgRAB, <<"N">>)),
                            Fld(<<"m">>, TNamed(PkgRAB, <<"M">>)) >>) ) @@
    ( <<"M">> :> TMap(TBasic(sString), TBasic(sInt)) ) @@
    ( <<"W">> :> TMap(TBasic(sInt), TBasic(sInt)) ) @@
    ( <<"P">> :> TPointer(TBasic(sString)) ) @@
    ( <<"C">> :> TChan(TNamed(PkgRAB, <<"E">>)) ) @@
    ( <<"Y">> :> TArray(TBasic(sInt)) )

DeclsX ==
    ( <<"T">> :> TStruct(<<>>) ) @@
    ( <<"E">> :> TInterface(<<>>) ) @@
    ( <<"S">> :> TBasic(sString) )

DeclsExt ==
    ( <<"T">> :> TStruct(<<>>) )

Decls(path) ==
    CASE path = PkgR   -> DeclsR
      [] path = PkgRA  -> DeclsRA
      [] path = PkgRAB -> DeclsRAB
      [] path = PkgX   -> DeclsX
      [] path = PkgExt -> DeclsExt

\* types.Type.Underlying
Underlying(t) == IF t.tag = "Named" THEN Decls(t.path)[t.name] ELSE t

\* types.Type.String as seen while checking package cur: conf.Check is given
\* the path "", so the checked package's own types print unqualified, and the
\* types of imported packages print with their import path
RECURSIVE TypeString(_, _)
TypeString(t, cur) ==
    CASE t.tag = "Named"     -> IF t.path = cur THEN t.name
                                ELSE t.path \o <<".">> \o t.name
      [] t.tag = "Basic"     -> t.name
      [] t.tag = "Pointer"   -> <<"*">> \o TypeString(t.elem, cur)
      [] t.tag = "Slice"     -> <<"[","]">> \o TypeString(t.elem, cur)
      [] t.tag = "Array"     -> <<"[","2","]">> \o TypeString(t.elem, cur)
      [] t.tag = "Map"       -> <<"m","a","p","[">> \o TypeString(t.key, cur)
                                \o <<"]">> \o TypeString(t.elem, cur)
      [] t.tag = "Chan"      -> <<"c","h","a","n"," ">> \o TypeString(t.elem, cur)
      [] t.tag = "Interface" ->
            <<"i","n","t","e","r","f","a","c","e","{">>
            \o Join([i \in DOMAIN t.members |-> t.members[i].name \o <<"(",")">>],
                    <<";"," ">>)
            \o <<"}">>
      [] t.tag = "Signature" -> sFunc
      [] t.tag = "Struct"    -> <<"s","t","r","u","c","t","{","}">>

\* reflect.TypeOf(t).String(), without its "*types." prefix
ReflectTypeOf(t) == t.tag

(***************************************************************************)
(* getTypeId.  typePkgName is assigned "main" for basic and signature      *)
(* types, but the id is built from originalPkgName.                        *)
(***************************************************************************)
\* the switch of getTypeId on u, the underlying type of t: the values of
\* typePkgName and typeName after it
getTypeIdNames(t, u, typePkgName, cur) ==
    CASE u.tag = "Basic" ->
            [pkg |-> <<"m","a","i","n">>, name |-> TypeString(t, cur)]
      [] u.tag = "Chan" ->
            [pkg |-> typePkgName,
             name |-> Join(<< <<"c","h","a","n">>, TypeString(u.elem, cur) >>, <<"_">>)]
      [] u.tag = "Slice" ->
            [pkg |-> typePkgName,
             name |-> Join(<< <<"s","l","i","c","e">>, TypeString(t, cur) >>, <<"_">>)]
      [] u.tag = "Struct" ->
            [pkg |-> typePkgName, name |-> TypeString(t, cur)]
      [] u.tag = "Interface" ->
            [pkg |-> typePkgName, name |-> TypeString(t, cur)]
      [] u.tag = "Pointer" ->
            [pkg |-> typePkgName, name |-> TypeString(u.elem, cur)]
      [] u.tag = "Signature" ->
            [pkg |-> <<"m","a","i","n">>, name |-> TypeString(t, cur)]
      [] u.tag = "Map" ->
            [pkg |-> typePkgName,
             name |-> Join(<< <<"m","a","p">>, TypeString(u.elem, cur) >>, <<"_">>)]
      [] OTHER ->
            [pkg |-> typePkgName, name |-> <<>>]

getTypeId(t, typePkgName, originalPkgName, cur) ==
    labelizeName(originalPkgName,
                 getTypeIdNames(t, Underlying(t), typePkgName, cur).name)

(***************************************************************************)
(* Maps.  The empty map is <<>>; MapPut overwrites like m[k] = v.          *)
(***************************************************************************)
MapPut(m, k, v) == (k :> v) @@ m

(***************************************************************************)
(* The struct-link resolver.                                               *)
(***************************************************************************)
stripPointer(typeName) == TrimPrefix(typeName, <<"*">>)

stripPkgPrefix(typeName, pkgName) ==
    TrimPrefix(TrimPrefix(typeName, pkgName), <<"/">>)

\* the element type of an array, map, chan or slice type; NoType is nil.
\* The switch is on the type itself, not on its underlying type.
getContainerType(t) ==
    IF t.tag \in {"Array", "Map", "Chan", "Slice"} THEN t.elem ELSE NoType

containerElemIsBasic(t) ==
    IF t.tag \in {"Slice", "Chan", "Array", "Map"}
    THEN t.elem.tag = "Basic"
    ELSE FALSE

\* obj.Pkg().Name(): the name of the package clause, the last path segment
PkgClauseName(cur) == LET parts == Split(cur, "/") IN parts[Len(parts)]

nodeLink(from, field, toPkg, toName) ==
    [fromStructTypeId |-> from, fromStructFieldName |-> field,
     toTypePkgName |-> toPkg, toTypeName |-> toName]

sTimeInterfaceBraces ==
    <<"t","i","m","e","_","i","n","t","e","r","f","a","c","e",
      "b","r","a","c","e","s">>

\* the guard of one iteration of addStructLinksToGraph's loop
\* a resolver that treats a pointer field like a basic one and links nothing
linksNoPointer(f, pkgName, cur) ==
    /\ ReflectTypeOf(f.type) \notin {"Signature", "Basic", "Pointer"}
    /\ ~containerElemIsBasic(f.type)

linksField(f, pkgName, cur) ==
    LET fieldId == getTypeId(f.type, PkgClauseName(cur), pkgName, cur)
        fTypeType == ReflectTypeOf(f.type)
        isSignature == fTypeType = "Signature"
        isBasic == fTypeType = "Basic"
        isEmptyInterface == fieldId = sTimeInterfaceBraces
        isContainerOfBasic == containerElemIsBasic(f.type)
    IN  ~isEmptyInterface /\ ~isSignature /\ ~isBasic /\ ~isContainerOfBasic

\* the link one iteration of addStructLinksToGraph's loop builds
fieldLink(structTypeId, f, pkgName, rootPkgName, cur) ==
    LET strippedType ==
            stripPkgPrefix(stripPointer(TypeString(f.type, cur)), rootPkgName)
        split == Split(strippedType, ".")
        toTypePkgName == IF Contains(strippedType, ".") THEN split[1] ELSE pkgName
        typeName == IF Contains(strippedType, ".") THEN split[2] ELSE strippedType
        containerType == getContainerType(f.type)
        toTypeTypeName == IF containerType # NoType
                          THEN TypeString(containerType, cur)
                          ELSE typeName
    IN  nodeLink(structTypeId, f.name, toTypePkgName, toTypeTypeName)

RECURSIVE structLinks(_, _, _, _, _)
structLinks(structTypeId, fields, pkgName, rootPkgName, cur) ==
    IF fields = <<>> THEN <<>>
    ELSE (IF linksField(Head(fields), pkgName, cur)
          THEN <<fieldLink(structTypeId, Head(fields), pkgName, rootPkgName, cur)>>
          ELSE <<>>)
         \o structLinks(structTypeId, Tail(fields), pkgName, rootPkgName, cur)

\* addStructLinksToGraph: the links appended for struct obj with underlying ss
addStructLinksToGraph(links, obj, ss, pkgName, rootPkgName, cur) ==
    LET structTypeId == getTypeId(obj, PkgClauseName(cur), pkgName, cur)
    IN  links \o structLinks(structTypeId, ss.members, pkgName, rootPkgName, cur)

(***************************************************************************)
(* Graph nodes and the package tree.  The graph under construction is a    *)
(* record g = [tree, dg, nodeLinks]; tree maps the path of a dotGraphPkg   *)
(* (the segments leading to it from the root) to its nodes map.  The root  *)
(* dotGraphPkg is the path <<>>; its nodes map is never created.           *)
(***************************************************************************)
dotGraphNode(pkgName, typeId, typeType, typeName, underlying, mapType, fields) ==
    [pkgName |-> pkgName, typeId |-> typeId, typeType |-> typeType,
     typeUnderlyingType |-> underlying, typeName |-> typeName,
     typeMapType |-> mapType, typeStructFields |-> fields,
     typeInterfaceMethods |-> <<>>]

dotGraphStructField(id, typeName) ==
    [structFieldId |-> id, structFieldTypeName |-> typeName]

\* (*byPkg).subPkgs[part] == nil => create it
ensureSubPkg(t, path) == IF path \in DOMAIN t THEN t ELSE MapPut(t, path, <<>>)

RECURSIVE ensurePrefixes(_, _, _)
ensurePrefixes(t, parts, n) ==
    IF n = 0 THEN t
    ELSE ensureSubPkg(ensurePrefixes(t, parts, n - 1), SubSeq(parts, 1, n))

\* addNodeToByPkg: descend one sub-package per segment, then store by typeName
storeNode(t1, parts, node) ==
    MapPut(t1, parts, MapPut(t1[parts], node.typeName, node))

withPrefixes(t, parts) == ensurePrefixes(t, parts, Len(parts))

addNodeToByPkg(t, node, pkgName) ==
    storeNode(withPrefixes(t, Split(pkgName, "/")), Split(pkgName, "/"), node)

\* the loop of addBasicToGraph: it never descends (it indexes byPkg, not
\* currentByPkg), so every segment becomes a sub-package of the root and the
\* node is stored under the last segment
RECURSIVE ensureRootParts(_, _, _)
ensureRootParts(t, parts, n) ==
    IF n = 0 THEN t
    ELSE ensureSubPkg(ensureRootParts(t, parts, n - 1), <<parts[n]>>)

\* the two stores of addBasicToGraph: under the last segment as a
\* sub-package of the root, then by addNodeToByPkg
putBasicNode(g, node, pkgName, parts, t1) ==
    [g EXCEPT !.tree =
        addNodeToByPkg(MapPut(t1, <<parts[Len(parts)]>>,
                              MapPut(t1[<<parts[Len(parts)]>>], node.typeName, node)),
                       node, pkgName)]

basicNode(typeId, name, b, pkgName, cur) ==
    dotGraphNode(pkgName, typeId, "basic", TypeString(TNamed(cur, name), cur),
                 TypeString(b, cur), <<>>, <<>>)

basicRootParts(t, parts) == ensureRootParts(t, parts, Len(parts))

addBasicToGraph(g, name, b, pkgName, cur) ==
    putBasicNode(g,
                 basicNode(getTypeId(TNamed(cur, name), PkgClauseName(cur), pkgName, cur),
                           name, b, pkgName, cur),
                 pkgName, Split(pkgName, "/"),
                 basicRootParts(g.tree, Split(pkgName, "/")))

\* addNodeToByPkg(byPkg, node, pkgName, typeId) and dg.typeNodes[typeId] = node
putNode(g, node, pkgName) ==
    [g EXCEPT !.tree = addNodeToByPkg(g.tree, node, pkgName),
              !.dg.typeNodes = MapPut(g.dg.typeNodes, node.typeId, node)]

addChanToGraph(g, name, c, pkgName, cur) ==
    putNode(g,
            dotGraphNode(pkgName,
                         getTypeId(TNamed(cur, name), PkgClauseName(cur), pkgName, cur),
                         "chan", TypeString(c.elem, cur), <<>>, <<>>, <<>>),
            pkgName)

addSliceToGraph(g, name, sl, pkgName, cur) ==
    putNode(g,
            dotGraphNode(pkgName,
                         getTypeId(TNamed(cur, name), PkgClauseName(cur), pkgName, cur),
                         "slice", name, TypeString(sl, cur), <<>>, <<>>),
            pkgName)

addMapToGraph(g, name, m, pkgName, cur) ==
    putNode(g,
            dotGraphNode(pkgName,
                         getTypeId(TNamed(cur, name), PkgClauseName(cur), pkgName, cur),
                         "map", name, <<>>, TypeString(m, cur), <<>>),
            pkgName)

addSignatureToGraph(g, name, sig, pkgName, cur) ==
    putNode(g,
            dotGraphNode(pkgName,
                         getTypeId(TNamed(cur, name), PkgClauseName(cur), pkgName, cur),
                         "signature",
                         Replace(Replace(TypeString(TNamed(cur, name), cur), <<"{">>, <<>>),
                                 <<"}">>, <<>>),
                         <<>>, <<>>, <<>>),
            pkgName)

\* addPointerToGraph: its body is commented out
addPointerToGraph(g, name, ptr, pkgName, cur) == g

\* one entry of node.typeStructFields
structField(f, pkgName, rootPkgName, cur) ==
    dotGraphStructField(
        getTypeId(f.type, PkgClauseName(cur), pkgName, cur),
        stripPkgPrefix(stripPointer(TypeString(f.type, cur)), rootPkgName))

RECURSIVE structFields(_, _, _, _)
structFields(fields, pkgName, rootPkgName, cur) ==
    IF fields = <<>> THEN <<>>
    ELSE MapPut(structFields(SubSeq(fields, 1, Len(fields) - 1),
                             pkgName, rootPkgName, cur),
                fields[Len(fields)].name,
                structField(fields[Len(fields)], pkgName, rootPkgName, cur))

\* dg.typeNodes[typeId] = node, addNodeToByPkg, addStructLinksToGraph
putStructNode(g, node, name, ss, pkgName, rootPkgName, cur) ==
    [g EXCEPT !.dg.typeNodes = MapPut(g.dg.typeNodes, node.typeId, node),
              !.tree = addNodeToByPkg(g.tree, node, pkgName),
              !.nodeLinks = addStructLinksToGraph(g.nodeLinks, TNamed(cur, name), ss,
                                                  pkgName, rootPkgName, cur)]

addStructToGraph(g, name, ss, pkgName, rootPkgName, cur) ==
    putStructNode(g,
                  dotGraphNode(pkgName,
                               getTypeId(TNamed(cur, name), PkgClauseName(cur), pkgName, cur),
                               "struct", name, <<>>, <<>>,
                               structFields(ss.members, pkgName, rootPkgName, cur)),
                  name, ss, pkgName, rootPkgName, cur)

\* the methods are stored in the root node dg, not in the interface's node
RECURSIVE interfaceMethods(_, _, _)
interfaceMethods(methods, ms, cur) ==
    IF ms = <<>> THEN methods
    ELSE interfaceMethods(MapPut(methods, Head(ms).name, TypeString(Head(ms).type, cur)),
                          Tail(ms), cur)

putInterfaceNode(g, node, i, pkgName, cur) ==
    [g EXCEPT !.dg.typeInterfaceMethods =
                  interfaceMethods(g.dg.typeInterfaceMethods, i.members, cur),
              !.dg.typeNodes = MapPut(g.dg.typeNodes, node.typeId, node),
              !.tree = addNodeToByPkg(g.tree, node, pkgName)]

addInterfaceToGraph(g, name, i, pkgName, cur) ==
    putInterfaceNode(g,
                     dotGraphNode(pkgName,
                                  getTypeId(TNamed(cur, name), PkgClauseName(cur),
                                            pkgName, cur),
                                  "interface", name, <<>>, <<>>, <<>>),
                     i, pkgName, cur)

\* the type switch of addTypeToGraph on u, the underlying type of the
\* declared (named) type name of package cur
addTypeByUnderlying(g, name, u, pkgName, rootPkgName, cur) ==
    CASE u.tag = "Basic"     -> addBasicToGraph(g, name, u, pkgName, cur)
      [] u.tag = "Interface" -> addInterfaceToGraph(g, name, u, pkgName, cur)
      [] u.tag = "Pointer"   -> addPointerToGraph(g, name, u, pkgName, cur)
      [] u.tag = "Signature" -> addSignatureToGraph(g, name, u, pkgName, cur)
      [] u.tag = "Chan"      -> addChanToGraph(g, name, u, pkgName, cur)
      [] u.tag = "Slice"     -> addSliceToGraph(g, name, u, pkgName, cur)
      [] u.tag = "Map"       -> addMapToGraph(g, name, u, pkgName, cur)
      [] u.tag = "Struct"    -> addStructToGraph(g, name, u, pkgName, rootPkgName, cur)
      [] OTHER               -> g

addTypeToGraph(g, name, pkgName, rootPkgName, cur) ==
    addTypeByUnderlying(g, name, Underlying(TNamed(cur, name)), pkgName, rootPkgName, cur)

(***************************************************************************)
(* The package walker: BuildGraph and recursivelyBuildGraph.  A frame of   *)
(* the recursion is [pkg, phase, todo, idx, entry]: phase "list" before go *)
(* list and the type check, "types" after; todo holds the declared names   *)
(* still to be classified (info.Defs is ranged over in any order) and idx  *)
(* the next element of listData.Imports.  entry is a history field: the    *)
(* tree as it was when the call was entered.                               *)
(***************************************************************************)
Frame(pkg, phase, todo, idx, entry) ==
    [pkg |-> pkg, phase |-> phase, todo |-> todo, idx |-> idx, entry |-> entry]

Top == stack[Len(stack)]

SetTop(f) == [stack EXCEPT ![Len(stack)] = f]

\* the packages whose types type t mentions
RECURSIVE RefPkgs(_)
RefPkgs(t) ==
    CASE t.tag = "Named" -> {t.path}
      [] t.tag \in {"Pointer", "Slice", "Array", "Chan"} -> RefPkgs(t.elem)
      [] t.tag = "Map" -> RefPkgs(t.key) \cup RefPkgs(t.elem)
      [] t.tag \in {"Struct", "Interface"} ->
            UNION {RefPkgs(t.members[i].type) : i \in DOMAIN t.members}
      [] OTHER -> {}

\* the packages the declarations of pkg cannot be compiled without
Required(pkg) ==
    UNION {RefPkgs(Decls(pkg)[n]) : n \in DOMAIN Decls(pkg)} \ {pkg}

\* the packages reachable from the packages of set from through the import
\* lists known so far
RECURSIVE Reach(_, _, _)
Reach(from, imps, n) ==
    IF n = 0 THEN from
    ELSE LET next == from \cup UNION {Range(imps[q]) : q \in from \cap DOMAIN imps}
         IN  Reach(next, imps, n - 1)

\* the elements of set S in the order of PkgOrder
SortedPkgs(S) == SelectSeq(PkgOrder, LAMBDA q : q \in S)

\* what go list may answer as the Imports of pkg: a sorted list holding at
\* least what the declarations need, never pkg itself, and closing no import
\* cycle (the Go tool chain rejects those)
ImportLists(pkg, imps) ==
    {SortedPkgs(S) : S \in {S \in SUBSET (AllPkgs \ {pkg}) :
        /\ Required(pkg) \subseteq S
        /\ Cardinality(S) <= MaxImports
        /\ pkg \notin Reach(S, imps, Cardinality(AllPkgs))}}

Roots == {PkgR, PkgRA}

\* the root dotGraphNode BuildGraph creates
emptyDg == [typeNodes |-> <<>>, typeInterfaceMethods |-> <<>>]

labIdle == [st |-> "idle"]
fldIdle == [st |-> "idle"]
noExpected == [stored |-> FALSE, text |-> <<>>]

Init ==
    /\ root \in Roots
    /\ pc = "start"
    /\ imports = <<>>
    /\ stack = <<>>
    /\ visits = <<>>
    /\ tree = <<>>
    /\ dg = emptyDg
    /\ nodeLinks = <<>>
    /\ out = <<>>
    /\ typeIdsPrinted = {}
    /\ linkIdx = 1
    /\ lab = labIdle
    /\ fld = fldIdle
    /\ expected = noExpected

\* WriteGraph calls BuildGraph, which calls recursivelyBuildGraph on the root
BuildGraph ==
    /\ pc = "start"
    /\ pc' = "build"
    /\ stack' = <<Frame(root, "list", {}, 1, <<>>)>>
    /\ dg' = emptyDg
    /\ tree' = <<>>
    /\ nodeLinks' = <<>>
    /\ UNCHANGED <<root, imports, visits, out, typeIdsPrinted, linkIdx, lab, fld, expected>>

\* listGoFilesInPackage and the parse of the files, both succeeding
listGoFilesInPackage ==
    /\ pc = "build"
    /\ Top.phase = "list"
    /\ \E imps \in (IF Top.pkg \in DOMAIN imports THEN {imports[Top.pkg]}
                    ELSE ImportLists(Top.pkg, imports)) :
          imports' = MapPut(imports, Top.pkg, imps)
    /\ visits' = Append(visits, Top.pkg)
    /\ stack' = SetTop(Frame(Top.pkg, "types", DOMAIN Decls(Top.pkg), 1, tree))
    /\ UNCHANGED <<root, pc, tree, dg, nodeLinks, out, typeIdsPrinted, linkIdx, lab, fld, expected>>

\* a run that carries on to the renderer after a fatal failure
afterFatalIgnored == "print"

\* where WriteGraph stands after os.Exit(1), log.Fatal or an unrecovered
\* panic: the process is gone and nothing of the run is returned
afterFatal == "exit"

\* go list fails or answers with what json.Unmarshal rejects: os.Exit(1) or
\* panic.  The frame keeps the cause in its phase.
listGoFilesFails ==
    /\ pc = "build"
    /\ Top.phase = "list"
    /\ visits' = Append(visits, Top.pkg)
    /\ stack' = SetTop([Top EXCEPT !.phase = "listFailed"])
    /\ pc' = afterFatal
    /\ UNCHANGED <<root, imports, tree, dg, nodeLinks, out, typeIdsPrinted, linkIdx,
                   lab, fld, expected>>

\* go list answered, parser.ParseFile fails on one of the files: log.Fatal
parseFileFails ==
    /\ pc = "build"
    /\ Top.phase = "list"
    /\ \E imps \in (IF Top.pkg \in DOMAIN imports THEN {imports[Top.pkg]}
                    ELSE ImportLists(Top.pkg, imports)) :
          imports' = MapPut(imports, Top.pkg, imps)
    /\ visits' = Append(visits, Top.pkg)
    /\ stack' = SetTop([Top EXCEPT !.phase = "parseFailed"])
    /\ pc' = afterFatal
    /\ UNCHANGED <<root, tree, dg, nodeLinks, out, typeIdsPrinted, linkIdx, lab, fld, expected>>

\* where WriteGraph stands after conf.Check returned an error: the Error
\* callback prints it, Check still returns the first error, log.Fatal(err)
afterCheckError == "exit"

\* the files were listed and parsed, conf.Check reports an error (a missing
\* transitive dependency, say); nothing of the package is classified
typeCheckFails ==
    /\ pc = "build"
    /\ Top.phase = "types"
    /\ Top.todo = DOMAIN Decls(Top.pkg)
    /\ stack' = SetTop([Top EXCEPT !.phase = "checkFailed"])
    /\ pc' = afterCheckError
    /\ UNCHANGED <<root, imports, visits, tree, dg, nodeLinks, out, typeIdsPrinted,
                   linkIdx, lab, fld, expected>>

normalizedPkgName(pkgName, rootPkgName) ==
    TrimPrefix(TrimPrefix(pkgName, rootPkgName), <<"/">>)

\* one iteration of the loop of addTypesToGraph over info.Defs
addTypesToGraph ==
    /\ pc = "build"
    /\ Top.phase = "types"
    /\ \E name \in Top.todo :
          /\ \E g2 \in {addTypeToGraph([tree |-> tree, dg |-> dg, nodeLinks |-> nodeLinks],
                                        name, normalizedPkgName(Top.pkg, root),
                                        root, Top.pkg)} :
                /\ tree' = g2.tree
                /\ dg' = g2.dg
                /\ nodeLinks' = g2.nodeLinks
          /\ stack' = SetTop([Top EXCEPT !.todo = Top.todo \ {name}])
    /\ UNCHANGED <<root, pc, imports, visits, out, typeIdsPrinted, linkIdx, lab, fld, expected>>

InImportLoop == pc = "build" /\ Top.phase = "types" /\ Top.todo = {}

\* a walker that follows every import, wherever it lies
visitsEveryImport(pkgName, importPath) == TRUE

\* a walker that follows every import lying under the root
visitsUnderRoot(pkgName, importPath) == HasPrefix(pkgName, PkgR)

\* whether the loop over listData.Imports visits import pkgName; the
\* ImportPath go list reports for a package is its id
visitsImport(pkgName, importPath) == HasPrefix(pkgName, importPath)

\* an import that has the visited package's path as prefix: the recursive call
recursivelyBuildGraph ==
    /\ InImportLoop
    /\ Top.idx <= Len(imports[Top.pkg])
    /\ visitsImport(imports[Top.pkg][Top.idx], Top.pkg)
    /\ stack' = Append(SetTop([Top EXCEPT !.idx = Top.idx + 1]),
                       Frame(imports[Top.pkg][Top.idx], "list", {}, 1, tree))
    /\ UNCHANGED <<root, pc, imports, visits, tree, dg, nodeLinks, out,
                   typeIdsPrinted, linkIdx, lab, fld, expected>>

\* any other import is passed over
skipImport ==
    /\ InImportLoop
    /\ Top.idx <= Len(imports[Top.pkg])
    /\ ~visitsImport(imports[Top.pkg][Top.idx], Top.pkg)
    /\ stack' = SetTop([Top EXCEPT !.idx = Top.idx + 1])
    /\ UNCHANGED <<root, pc, imports, visits, tree, dg, nodeLinks, out,
                   typeIdsPrinted, linkIdx, lab, fld, expected>>

\* the end of the loop: recursivelyBuildGraph returns; the outermost return
\* is BuildGraph's
return ==
    /\ InImportLoop
    /\ Top.idx > Len(imports[Top.pkg])
    /\ stack' = SubSeq(stack, 1, Len(stack) - 1)
    /\ pc' = IF Len(stack) = 1 THEN "print" ELSE "build"
    /\ UNCHANGED <<root, imports, visits, tree, dg, nodeLinks, out,
                   typeIdsPrinted, linkIdx, lab, fld, expected>>

(***************************************************************************)
(* The renderer.  The text is a sequence of lines; a line is a record      *)
(* holding what the format string is filled with: k is the kind of line,   *)
(* id the vertex token a node line declares (or an edge starts at).        *)
(* Indentation and the fixed styling are left out.                         *)
(***************************************************************************)
Line(k, id, kind, label, detail, rows, port, to) ==
    [k |-> k, id |-> id, kind |-> kind, label |-> label, detail |-> detail,
     rows |-> rows, port |-> port, to |-> to]

sFIXME == <<"F","I","X","M","E">>

relativizeTypePkgName(typeName, pkgName) ==
    LET pkgSlash == pkgName \o <<"/">>
        pkgNameAsPointer == <<"*">> \o pkgSlash
    IN  IF HasPrefix(typeName, pkgSlash)
        THEN <<".",".","/">> \o TrimPrefix(typeName, pkgSlash)
        ELSE IF HasPrefix(typeName, pkgNameAsPointer)
        THEN <<".",".","/">> \o TrimPrefix(typeName, pkgNameAsPointer)
        ELSE typeName

escapeHtml(str) ==
    Replace(Replace(str, <<"<">>, <<"&","l","t",";">>), <<">">>, <<"&","g","t",";">>)

\* a range over a Go map visits its keys in an order the language leaves
\* open: the keys of S in one fixed order, or in the reverse of it
RECURSIVE KeySeq(_)
KeySeq(S) ==
    IF S = {} THEN <<>>
    ELSE LET k == CHOOSE k \in S : TRUE IN <<k>> \o KeySeq(S \ {k})

Reverse(s) == [i \in DOMAIN s |-> s[Len(s) + 1 - i]]

KeysInOrder(S, rev) == IF rev THEN Reverse(KeySeq(S)) ELSE KeySeq(S)

\* the rows of a struct's field table
fieldRows(dgn, pkgName, rev) ==
    LET names == KeysInOrder(DOMAIN dgn.typeStructFields, rev)
    IN  [i \in DOMAIN names |->
            [port |-> names[i], name |-> names[i],
             type |-> escapeHtml(relativizeTypePkgName(
                         dgn.typeStructFields[names[i]].structFieldTypeName, pkgName))]]

\* the rows of an interface's method table
methodRows(dgn, rev) ==
    LET names == KeysInOrder(DOMAIN dgn.typeInterfaceMethods, rev)
    IN  [i \in DOMAIN names |->
            [port |-> <<>>, name |-> names[i], type |-> dgn.typeInterfaceMethods[names[i]]]]

\* dotGraphNode.Print: the lines appended to the text.  A signature node is
\* written to the standard output by fmt.Printf and nothing is appended; a
\* chan node is declared under its typeName.
nodePrint(dgn, pkgName, rev) ==
    CASE dgn.typeType = "struct" ->
            <<Line("node", dgn.typeId, "struct", dgn.typeName, <<>>,
                   fieldRows(dgn, pkgName, rev), <<>>, <<>>)>>
      [] dgn.typeType = "basic" ->
            <<Line("node", dgn.typeId, "basic", dgn.typeName,
                   dgn.typeUnderlyingType, <<>>, <<>>, <<>>)>>
      [] dgn.typeType = "interface" ->
            <<Line("node", dgn.typeId, "interface", dgn.typeName, <<>>,
                   methodRows(dgn, rev), <<>>, <<>>)>>
      [] dgn.typeType = "pointer" ->
            <<Line("node", dgn.typeId, "pointer", <<>>, <<>>, <<>>, <<>>, <<>>)>>
      [] dgn.typeType = "signature" -> <<>>
      [] dgn.typeType = "chan" ->
            <<Line("node", dgn.typeName, "chan", <<>>, dgn.typeUnderlyingType,
                   <<>>, <<>>, <<>>)>>
      [] dgn.typeType = "slice" ->
            <<Line("node", dgn.typeId, "slice", dgn.typeName,
                   dgn.typeUnderlyingType, <<>>, <<>>, <<>>)>>
      [] dgn.typeType = "map" ->
            <<Line("node", dgn.typeId, "map", dgn.typeName, dgn.typeMapType,
                   <<>>, <<>>, <<>>)>>
      [] OTHER -> <<>>

\* the ids dotGraphNode.Print records: typeIdsPrinted[dgn.typeId] = true
nodePrintId(dgn) == dgn.typeId

\* the sub-packages of the dotGraphPkg at path
subPkgs(t, path) ==
    {q \in DOMAIN t : Len(q) = Len(path) + 1 /\ SubSeq(q, 1, Len(path)) = path}

\* the nodes map of the dotGraphPkg at path (nil for the root)
nodesAt(t, path) == IF path \in DOMAIN t THEN t[path] ELSE <<>>

RECURSIVE Concat(_)
Concat(ss) == IF ss = <<>> THEN <<>> ELSE Head(ss) \o Concat(Tail(ss))

\* dotGraphPkg.Print: the nodes, then one cluster per sub-package, printed
\* with the package name "FIXME"
RECURSIVE pkgPrint(_, _, _, _)
pkgPrint(t, path, pkgName, rev) ==
    LET nodes == nodesAt(t, path)
        names == KeysInOrder(DOMAIN nodes, rev)
        subs == KeysInOrder(subPkgs(t, path), rev)
    IN  Concat([i \in DOMAIN names |-> nodePrint(nodes[names[i]], pkgName, rev)])
        \o Concat([i \in DOMAIN subs |->
              <<Line("subgraph", subs[i][Len(subs[i])], <<>>, <<>>, <<>>, <<>>, <<>>, <<>>)>>
              \o pkgPrint(t, subs[i], sFIXME, rev)
              \o <<Line("label", <<>>, <<>>,
                        relativizeTypePkgName(subs[i][Len(subs[i])], pkgName),
                        <<>>, <<>>, <<>>, <<>>),
                   Line("close", <<>>, <<>>, <<>>, <<>>, <<>>, <<>>, <<>>)>>])

\* the ids recorded while the tree is printed
printedIds(t) ==
    UNION {{nodePrintId(t[q][n]) : n \in DOMAIN t[q]} : q \in DOMAIN t}

\* WriteGraph, lines 95 to 101: the header, then byPkg.Print
printTree ==
    /\ pc = "print"
    /\ \E rev \in BOOLEAN :
          out' = <<Line("header", <<>>, <<>>, root, <<>>, <<>>, <<>>, <<>>)>>
                 \o pkgPrint(tree, <<>>, root, rev)
    /\ typeIdsPrinted' = printedIds(tree)
    /\ linkIdx' = 1
    /\ pc' = "links"
    /\ UNCHANGED <<root, imports, stack, visits, tree, dg, nodeLinks, lab, fld, expected>>

\* the lines one iteration of WriteGraph's loop over byPkg.nodeLinks appends
linkLines(link, toTypeId, printed) ==
    <<Line("edge", link.fromStructTypeId, <<>>, <<>>, <<>>, <<>>,
           link.fromStructFieldName, toTypeId)>>
    \o (IF toTypeId \notin printed
        THEN <<Line("node", toTypeId, "placeholder",
                    link.toTypePkgName \o <<".">> \o link.toTypeName,
                    <<>>, <<>>, <<>>, <<>>)>>
        ELSE <<>>)

linkPrint(link, printed) ==
    linkLines(link, labelizeName(link.toTypePkgName, link.toTypeName), printed)

printLink ==
    /\ pc = "links"
    /\ linkIdx <= Len(nodeLinks)
    /\ out' = out \o linkPrint(nodeLinks[linkIdx], typeIdsPrinted)
    /\ linkIdx' = linkIdx + 1
    /\ UNCHANGED <<root, pc, imports, stack, visits, tree, dg, nodeLinks,
                   typeIdsPrinted, lab, fld, expected>>

\* the closing brace; WriteGraph returns the text
printFooter ==
    /\ pc = "links"
    /\ linkIdx > Len(nodeLinks)
    /\ out' = Append(out, Line("footer", <<>>, <<>>, <<>>, <<>>, <<>>, <<>>, <<>>))
    /\ pc' = "done"
    /\ UNCHANGED <<root, imports, stack, visits, tree, dg, nodeLinks,
                   typeIdsPrinted, linkIdx, lab, fld, expected>>

Next ==
    \/ BuildGraph
    \/ listGoFilesInPackage
    \/ listGoFilesFails
    \/ parseFileFails
    \/ typeCheckFails
    \/ addTypesToGraph
    \/ recursivelyBuildGraph
    \/ skipImport
    \/ return
    \/ printTree
    \/ printLink
    \/ printFooter

Spec == Init /\ [][Next]_vars

(***************************************************************************)
(* Two runs on the same package descriptions: the text of the first run    *)
(* is stored as the expected file, then WriteGraph runs again.  go list    *)
(* answers the second run as it answered the first (imports is kept).      *)
(***************************************************************************)
InitTwice == Init /\ root = PkgRA

\* the first run's text becomes the expected file and the test runs
\* WriteGraph anew
storeExpected ==
    /\ pc = "done"
    /\ ~expected.stored
    /\ expected' = [stored |-> TRUE, text |-> out]
    /\ pc' = "start"
    /\ stack' = <<>>
    /\ visits' = <<>>
    /\ tree' = <<>>
    /\ dg' = emptyDg
    /\ nodeLinks' = <<>>
    /\ out' = <<>>
    /\ typeIdsPrinted' = {}
    /\ linkIdx' = 1
    /\ UNCHANGED <<root, imports, lab, fld>>

NextTwice ==
    \/ Next
    \/ storeExpected

SpecTwice == InitTwice /\ [][NextTwice]_vars

(***************************************************************************)
(* labelizeName on its own: two (package path, type name) inputs are       *)
(* drawn and the allocator is applied to both.                             *)
(***************************************************************************)
\* the pipeline's variables while only a function of it is exercised
pipelineIdle ==
    /\ root = PkgR
    /\ pc = "idle"
    /\ imports = <<>>
    /\ stack = <<>>
    /\ visits = <<>>
    /\ tree = <<>>
    /\ dg = emptyDg
    /\ nodeLinks = <<>>
    /\ out = <<>>
    /\ typeIdsPrinted = {}
    /\ linkIdx = 1
    /\ expected = noExpected

pipelineVars == <<root, pc, imports, stack, visits, tree, dg, nodeLinks, out,
                  typeIdsPrinted, linkIdx, expected>>

\* package paths as labelizeName receives them (relative to the root)
LabelPkgs == {<<>>, <<"a">>, <<"a","/","b">>}

\* the characters type names are drawn over: a letter in both cases, the dot
\* of a qualified name and the opening bracket of a map or array type
LabelAlphabet == {"a", "A", ".", "["}

\* the names of the basic types among the inputs
BasicNames == {sInt}

LabelNames == StrUpTo(LabelAlphabet, MaxNameLen) \cup BasicNames

InitLabel ==
    /\ pipelineIdle
    /\ fld = fldIdle
    /\ lab \in [st : {"in"}, p1 : LabelPkgs, t1 : LabelNames,
                p2 : LabelPkgs, t2 : LabelNames, id1 : {<<>>}, id2 : {<<>>}]

Labelize ==
    /\ lab.st = "in"
    /\ lab' = [lab EXCEPT !.st = "out",
                          !.id1 = labelizeName(lab.p1, lab.t1),
                          !.id2 = labelizeName(lab.p2, lab.t2)]
    /\ UNCHANGED <<pipelineVars, fld>>

\* relativizeTypePkgName applied to a type string that lies under package
\* p1 (plain or behind a pointer star), or to the bare name
Relativize ==
    /\ lab.st = "in"
    /\ \E typeName \in {lab.t1,
                         lab.p1 \o <<"/">> \o lab.t1,
                         <<"*">> \o lab.p1 \o <<"/">> \o lab.t1} :
          lab' = [st |-> "rel", typeName |-> typeName, pkgName |-> lab.p1,
                  result |-> relativizeTypePkgName(typeName, lab.p1)]
    /\ UNCHANGED <<pipelineVars, fld>>

NextLabel ==
    \/ Labelize
    \/ Relativize

SpecLabel == InitLabel /\ [][NextLabel]_vars

(***************************************************************************)
(* The link resolver and getTypeId on their own: a struct of package cur   *)
(* (root package r) with one field f, whose type is drawn from the types   *)
(* that package can mention.                                               *)
(***************************************************************************)
FieldAtoms ==
    {TBasic(sString), TSignature, TInterface(<<>>),
     TNamed(PkgR, <<"S">>), TNamed(PkgR, <<"F">>), TNamed(PkgR, <<"A">>),
     TNamed(PkgR, <<"I">>), TNamed(PkgRA, <<"D">>), TNamed(PkgRAB, <<"M">>),
     TNamed(PkgX, <<"T">>), TNamed(PkgX, <<"E">>), TNamed(PkgX, <<"S">>),
     TNamed(PkgExt, <<"T">>)}

\* the types of nesting depth at most n
RECURSIVE FieldTypes(_)
FieldTypes(n) ==
    IF n = 0 THEN FieldAtoms
    ELSE LET inner == FieldTypes(n - 1)
         IN  inner
             \cup {TPointer(e) : e \in inner}
             \cup {TSlice(e) : e \in inner}
             \cup {TArray(e) : e \in inner}
             \cup {TMap(TBasic(sString), e) : e \in inner}
             \cup {TChan(e) : e \in inner}

\* the import lists the declarations force
RequiredImports == [q \in AllPkgs |-> SortedPkgs(Required(q))]

\* whether a declaration of package cur can mention type t: importing t's
\* packages must close no import cycle
Mentionable(t, cur) ==
    cur \notin Reach(RefPkgs(t) \ {cur}, RequiredImports, Cardinality(AllPkgs))

\* the struct of package cur the field is put into
StructOf(cur) == IF cur = PkgR THEN TNamed(PkgR, <<"A">>) ELSE TNamed(PkgRA, <<"D">>)

InitLinks ==
    /\ pipelineIdle
    /\ lab = labIdle
    /\ \E cur \in Roots :
       \E t \in {t \in FieldTypes(MaxDepth) : Mentionable(t, cur)} :
          fld = [st |-> "in", cur |-> cur, f |-> Fld(<<"f">>, t), links |-> <<>>,
                 text |-> <<>>, other |-> cur, idCur |-> <<>>, idOther |-> <<>>]

\* addStructLinksToGraph on the struct with the one field f
ResolveLinks ==
    /\ fld.st = "in"
    /\ fld' = [fld EXCEPT
                 !.st = "links",
                 !.links = addStructLinksToGraph(
                               <<>>, StructOf(fld.cur), TStruct(<<fld.f>>),
                               normalizedPkgName(fld.cur, root), root, fld.cur)]
    /\ UNCHANGED <<pipelineVars, lab>>

\* getTypeId on the type of f, as a field of package cur and as a field of
\* package other
AllocateIds ==
    /\ fld.st = "in"
    /\ \E other \in {q \in Roots : Mentionable(fld.f.type, q)} :
          fld' = [fld EXCEPT
                    !.st = "ids",
                    !.other = other,
                    !.idCur = getTypeId(fld.f.type, PkgClauseName(fld.cur),
                                        normalizedPkgName(fld.cur, root), fld.cur),
                    !.idOther = getTypeId(fld.f.type, PkgClauseName(other),
                                          normalizedPkgName(other, root), other)]
    /\ UNCHANGED <<pipelineVars, lab>>

\* the loop of WriteGraph over the links of the struct, no node of the
\* target's package having been printed
RECURSIVE linksPrint(_, _)
linksPrint(links, printed) ==
    IF links = <<>> THEN <<>>
    ELSE linkPrint(Head(links), printed) \o linksPrint(Tail(links), printed)

RenderLinks ==
    /\ fld.st = "links"
    /\ fld' = [fld EXCEPT !.st = "text", !.text = linksPrint(fld.links, {})]
    /\ UNCHANGED <<pipelineVars, lab>>

\* addStructLinksToGraph on the struct with two fields: f, of an unnamed
\* container type, and g, of the container's element type
ResolveBoth ==
    /\ fld.st = "in"
    /\ fld.f.type.tag \in {"Slice", "Array", "Map", "Chan"}
    /\ fld' = [fld EXCEPT
                 !.st = "both",
                 !.links = addStructLinksToGraph(
                               <<>>, StructOf(fld.cur),
                               TStruct(<<fld.f, Fld(<<"g">>, fld.f.type.elem)>>),
                               normalizedPkgName(fld.cur, root), root, fld.cur)]
    /\ UNCHANGED <<pipelineVars, lab>>

NextLinks ==
    \/ ResolveLinks
    \/ AllocateIds
    \/ RenderLinks
    \/ ResolveBoth

SpecLinks == InitLinks /\ [][NextLinks]_vars

(***************************************************************************)
(* Properties.                                                             *)
(***************************************************************************)
\* the node lines of the text that declare the target of edge line i
targetDeclarations(i) ==
    {j \in DOMAIN out : out[j].k = "node" /\ out[j].id = out[i].to}

\* C1: in the text WriteGraph returns, the target token of every edge line
\* is declared as a node exactly once (a real node or a placeholder), never
\* zero times and never more than once.
C1_EdgeTargetDeclaredOnce ==
    pc = "done" =>
        \A i \in DOMAIN out :
            out[i].k = "edge" => Cardinality(targetDeclarations(i)) = 1

\* the structural kind of a type: the tag of its underlying type
Kind(t) == Underlying(t).tag

\* C2: for a struct field whose structural kind is Basic or Signature, be
\* its type unnamed or a named type declared over one, addStructLinksToGraph
\* appends no link.
C2_NoLinkForBasicOrSignature ==
    (fld.st = "links" /\ Kind(fld.f.type) \in {"Basic", "Signature"})
        => fld.links = <<>>

ContainerTags == {"Array", "Slice", "Map", "Chan"}

\* the (package, name) pair of a named type, the package relative to the root
TypePair(t) == [pkg |-> normalizedPkgName(t.path, root), name |-> t.name]

LinkTarget(link) == [pkg |-> link.toTypePkgName, name |-> link.toTypeName]

\* C3: for a struct field of container kind, no link is appended if the
\* element's kind is Basic; otherwise exactly one link is appended and its
\* target is the element type's (package, name) pair.
C3_ContainerLinksToElement ==
    (fld.st = "links" /\ fld.f.type.tag \in ContainerTags) =>
        IF Kind(fld.f.type.elem) = "Basic"
        THEN fld.links = <<>>
        ELSE /\ Len(fld.links) = 1
             /\ fld.f.type.elem.tag = "Named"
                    => LinkTarget(fld.links[1]) = TypePair(fld.f.type.elem)

\* an interface type with zero explicit methods
IsEmptyInterface(t) == Kind(t) = "Interface" /\ Underlying(t).members = <<>>

\* C4: for a struct field whose type is an interface with zero explicit
\* methods, whatever package declares it, addStructLinksToGraph appends no
\* link.
C4_NoLinkForEmptyInterface ==
    (fld.st = "links" /\ IsEmptyInterface(fld.f.type)) => fld.links = <<>>

\* C5: labelizeName is injective on (package path, type name) pairs, but for
\* identically named basic types of different packages.
C5_LabelizeInjective ==
    (/\ lab.st = "out"
     /\ <<lab.p1, lab.t1>> # <<lab.p2, lab.t2>>
     /\ ~(lab.t1 = lab.t2 /\ lab.t1 \in BasicNames))
        => lab.id1 # lab.id2

\* C6: getTypeId gives a basic type or a function-signature type the same id
\* whatever package references it.
C6_BasicIdIndependentOfPackage ==
    (fld.st = "ids" /\ Kind(fld.f.type) \in {"Basic", "Signature"})
        => fld.idCur = fld.idOther

SafeChars == Range(Lower) \cup Digits \cup {"_"}

\* C7: the token labelizeName returns holds only lower-case letters, digits
\* and underscores.
C7_TokenAlphanumericSafe ==
    lab.st = "out" => Range(lab.id1) \subseteq SafeChars

\* the packages reachable from the root through the import lists
ReachableFromRoot == Reach({root}, imports, Cardinality(AllPkgs))

\* C8: when BuildGraph completes, the visited packages are the root and
\* every package reachable from it through import lists whose path has the
\* root's path as prefix.
C8_VisitsAllPrefixedReachable ==
    pc = "print" =>
        Range(visits) = {root} \cup {q \in ReachableFromRoot : HasPrefix(q, root)}

\* C9: every package the walker visits, at any depth of the recursion, has
\* a path that starts with the root package's path, and every node of the
\* tree was classified from the declarations of such a package.
C9_VisitedUnderRoot ==
    /\ \A i \in DOMAIN visits : HasPrefix(visits[i], root)
    /\ \A i \in DOMAIN stack : HasPrefix(stack[i].pkg, root)
    /\ \A q \in DOMAIN tree : \A n \in DOMAIN tree[q] :
          \E i \in DOMAIN visits :
             /\ HasPrefix(visits[i], root)
             /\ tree[q][n].pkgName = normalizedPkgName(visits[i], root)

\* the walk is over, it went below the root, and an import outside the
\* root's prefix was met on the way
C9_Witness ==
    /\ pc = "print"
    /\ Len(visits) >= 2
    /\ \E q \in DOMAIN imports : PkgX \in Range(imports[q])

\* the innermost call has just reprocessed the declarations of a package
\* that was visited before
Revisited ==
    /\ InImportLoop
    /\ Top.idx = 1
    /\ Cardinality({i \in DOMAIN visits : visits[i] = Top.pkg}) >= 2

SameKeysAndIds(t1, t2) ==
    /\ DOMAIN t1 = DOMAIN t2
    /\ \A q \in DOMAIN t1 :
          /\ DOMAIN t1[q] = DOMAIN t2[q]
          /\ \A n \in DOMAIN t1[q] : t1[q][n].typeId = t2[q][n].typeId

\* C10: after the declarations of an already visited package are
\* reprocessed, every package-tree node holds the same keys and the same
\* node ids as before the revisit.
C10_RevisitKeepsKeysAndIds ==
    Revisited => SameKeysAndIds(Top.entry, tree)

\* go list or the parser failed in some call of the walk
ResolutionFailed ==
    \E i \in DOMAIN stack : stack[i].phase \in {"listFailed", "parseFailed"}

\* C11: if package resolution or source parsing fails for any visited
\* package, the run is aborted and no graph text at all is returned.
C11_NoPartialGraph ==
    ResolutionFailed => (pc = "exit" /\ out = <<>>)

\* the failure strikes below the root, after other packages were classified
C11_Witness ==
    /\ ResolutionFailed
    /\ Len(stack) >= 2
    /\ tree # <<>>
    /\ pc = "exit"

\* conf.Check reported an error in some call of the walk
TypeCheckFailed == \E i \in DOMAIN stack : stack[i].phase = "checkFailed"

\* C12: if type-checking a visited package reports an error, the run
\* continues: it is not ended by the error.
C12_TypeCheckErrorContinues ==
    TypeCheckFailed => pc # "exit"

\* the typeType the classifier gives a node of each supported shape
NodeKinds ==
    [Basic |-> "basic", Struct |-> "struct", Interface |-> "interface",
     Slice |-> "slice", Map |-> "map", Chan |-> "chan", Signature |-> "signature"]

\* the display name (typeName) of the node built for declared type n of
\* package q: the element's string for a chan, the declared name otherwise
DisplayName(q, n) ==
    IF Kind(TNamed(q, n)) = "Chan"
    THEN TypeString(Underlying(TNamed(q, n)).elem, q)
    ELSE n

\* every place (path, key) of the tree
TreePlaces == UNION {{<<p, k>> : k \in DOMAIN tree[p]} : p \in DOMAIN tree}

NodeAt(place) == tree[place[1]][place[2]]

\* the places of the tree holding the node built for declared type n of
\* package q
PlacesOf(q, n) ==
    {pl \in TreePlaces :
        /\ NodeAt(pl).pkgName = normalizedPkgName(q, root)
        /\ NodeAt(pl).typeName = DisplayName(q, n)
        /\ Kind(TNamed(q, n)) \in DOMAIN NodeKinds
        /\ NodeAt(pl).typeType = NodeKinds[Kind(TNamed(q, n))]}

\* C13: when the walk is over, the tree holds exactly one node, of the
\* matching kind, for every declared type of a visited package whose shape
\* is Basic, Struct, Interface, Slice, Map, Chan or Signature, and none for
\* a declared type of pointer or unsupported shape.
C13_OneNodePerDeclaredType ==
    pc = "print" =>
        \A q \in Range(visits) : \A n \in DOMAIN Decls(q) :
            IF Kind(TNamed(q, n)) \in DOMAIN NodeKinds
            THEN Cardinality(PlacesOf(q, n)) = 1
            ELSE \A pl \in TreePlaces :
                    ~(/\ NodeAt(pl).pkgName = normalizedPkgName(q, root)
                      /\ NodeAt(pl).typeName = n)

\* C14: each node of the tree is stored in exactly one dotGraphPkg, the one
\* reached from the root by following the segments of its declaring
\* package path, and in no other.
C14_NodeStoredUnderItsPath ==
    \A pl \in TreePlaces : pl[1] = Split(NodeAt(pl).pkgName, "/")

\* the (owning package path, display name) pairs the walk inserted: one per
\* declared type of supported shape of every visited package
InsertedPairs ==
    UNION {{<<normalizedPkgName(q, root), DisplayName(q, n)>> :
                n \in {n \in DOMAIN Decls(q) : Kind(TNamed(q, n)) \in DOMAIN NodeKinds}} :
           q \in Range(visits)}

\* C15: when the walk is over, the number of nodes stored in the whole tree
\* equals the number of distinct (owning package path, display name) pairs
\* inserted.
C15_NodeCountEqualsPairs ==
    pc = "print" => Cardinality(TreePlaces) = Cardinality(InsertedPairs)

\* C16: two nodes of the tree built for distinct declared types, of one
\* package or of two, never have the same typeId.
C16_TypeIdsUnique ==
    \A pl1 \in TreePlaces : \A pl2 \in TreePlaces :
        (<<NodeAt(pl1).pkgName, NodeAt(pl1).typeName>>
            # <<NodeAt(pl2).pkgName, NodeAt(pl2).typeName>>)
        => NodeAt(pl1).typeId # NodeAt(pl2).typeId

\* the links appended for field field of the struct with id from
LinksOfField(from, field) ==
    {i \in DOMAIN nodeLinks :
        /\ nodeLinks[i].fromStructTypeId = from
        /\ nodeLinks[i].fromStructFieldName = field}

\* the id of declared type n of package q
DeclaredId(q, n) ==
    getTypeId(TNamed(q, n), PkgClauseName(q), normalizedPkgName(q, root), q)

\* C17: for the declared type M over a map with a basic element, the walk
\* creates a Map node recording the map type, and the struct field E.m of
\* type M produces no link.
C17_MapNodeAndNoLink ==
    (pc = "print" /\ PkgRAB \in Range(visits)) =>
        /\ \E pl \in PlacesOf(PkgRAB, <<"M">>) :
              NodeAt(pl).typeMapType = TypeString(Underlying(TNamed(PkgRAB, <<"M">>)), PkgRAB)
        /\ LinksOfField(DeclaredId(PkgRAB, <<"E">>), <<"m">>) = {}

\* a named type, or a pointer to one, of a package outside the root's prefix
IsExternal(t) ==
    \/ t.tag = "Named" /\ ~HasPrefix(t.path, root)
    \/ t.tag = "Pointer" /\ t.elem.tag = "Named" /\ ~HasPrefix(t.elem.path, root)

ExternalNamed(t) == IF t.tag = "Pointer" THEN t.elem ELSE t

\* C18: for a struct field whose type belongs to a package the walker never
\* visits, the text holds the edge and a placeholder node declared under
\* the edge's target and labelled with that package and that type name.
C18_PlaceholderForExternal ==
    (fld.st = "text" /\ IsExternal(fld.f.type)) =>
        \E i \in DOMAIN fld.text : \E j \in DOMAIN fld.text :
            /\ fld.text[i].k = "edge"
            /\ fld.text[j].k = "node"
            /\ fld.text[j].kind = "placeholder"
            /\ fld.text[j].id = fld.text[i].to
            /\ fld.text[j].label = ExternalNamed(fld.f.type).path \o <<".">>
                                        \o ExternalNamed(fld.f.type).name

\* the node id a link points to, as WriteGraph computes it
LinkTargetId(i) ==
    labelizeName(nodeLinks[i].toTypePkgName, nodeLinks[i].toTypeName)

\* C19: the structs A and B of package r refer to each other through the
\* pointer fields A.b and B.a; once the walk of r is over the tree holds
\* exactly two Struct nodes for r, those of A and B, and exactly two links
\* between the two structs: one from A.b to the id of B's node and one from
\* B.a to the id of A's node.
C19_MutualPointerStructs ==
    (pc \in {"print", "links", "done"} /\ root = PkgR) =>
        /\ Cardinality({pl \in TreePlaces :
                /\ NodeAt(pl).pkgName = normalizedPkgName(PkgR, root)
                /\ NodeAt(pl).typeType = "struct"}) = 2
        /\ Cardinality(PlacesOf(PkgR, <<"A">>)) = 1
        /\ Cardinality(PlacesOf(PkgR, <<"B">>)) = 1
        /\ \A pl \in PlacesOf(PkgR, <<"A">>) :
                NodeAt(pl).typeId = DeclaredId(PkgR, <<"A">>)
        /\ \A pl \in PlacesOf(PkgR, <<"B">>) :
                NodeAt(pl).typeId = DeclaredId(PkgR, <<"B">>)
        /\ Cardinality(LinksOfField(DeclaredId(PkgR, <<"A">>), <<"b">>)) = 1
        /\ Cardinality(LinksOfField(DeclaredId(PkgR, <<"B">>), <<"a">>)) = 1
        /\ \A i \in LinksOfField(DeclaredId(PkgR, <<"A">>), <<"b">>) :
                LinkTargetId(i) = DeclaredId(PkgR, <<"B">>)
        /\ \A i \in LinksOfField(DeclaredId(PkgR, <<"B">>), <<"a">>) :
                LinkTargetId(i) = DeclaredId(PkgR, <<"A">>)
        /\ Cardinality({i \in DOMAIN nodeLinks :
                /\ nodeLinks[i].fromStructTypeId \in
                        {DeclaredId(PkgR, <<"A">>), DeclaredId(PkgR, <<"B">>)}
                /\ LinkTargetId(i) \in
                        {DeclaredId(PkgR, <<"A">>), DeclaredId(PkgR, <<"B">>)}}) = 2

\* the walk of r has ended, the graph is written and both links are there
C19_Witness ==
    /\ pc = "done"
    /\ root = PkgR
    /\ LinksOfField(DeclaredId(PkgR, <<"A">>), <<"b">>) # {}
    /\ LinksOfField(DeclaredId(PkgR, <<"B">>), <<"a">>) # {}

\* C20: when the walk is over, the node built for a declared interface of a
\* visited package carries exactly the explicit methods of that interface,
\* each mapped to its signature string, and no other node, the root of
\* the graph included, carries method entries.
C20_InterfaceNodeCarriesMethods ==
    pc = "print" =>
        /\ \A q \in Range(visits) : \A n \in DOMAIN Decls(q) :
              Kind(TNamed(q, n)) = "Interface" =>
                  \A pl \in PlacesOf(q, n) :
                      NodeAt(pl).typeInterfaceMethods
                          = interfaceMethods(<<>>, Underlying(TNamed(q, n)).members, q)
        /\ \A pl \in TreePlaces :
              NodeAt(pl).typeType # "interface" =>
                  NodeAt(pl).typeInterfaceMethods = <<>>
        /\ dg.typeInterfaceMethods = <<>>

\* C21: the text starts with the header; every node of the tree is declared
\* in it, under its id, before the first edge line; and once WriteGraph has
\* returned, the footer is the last line and the only footer.
C21_TextInOrder ==
    pc \in {"links", "done"} =>
        /\ out[1].k = "header"
        /\ \A pl \in TreePlaces :
              \E i \in DOMAIN out :
                  /\ out[i].k = "node"
                  /\ out[i].kind = NodeAt(pl).typeType
                  /\ out[i].id = NodeAt(pl).typeId
                  /\ \A j \in DOMAIN out : out[j].k = "edge" => i < j
        /\ pc = "done" =>
              /\ out[Len(out)].k = "footer"
              /\ \A i \in 1..(Len(out) - 1) : out[i].k # "footer"

\* C22: links are resolved after the nodes are built: once the link list
\* holds a link, no step inserts a node into the tree any more.
C22_LinksAfterAllNodes ==
    [][nodeLinks # <<>> => tree' = tree]_vars

\* C23: when the tree has been rendered and no link yet, the ids recorded in
\* typeIdsPrinted are exactly the vertex tokens declared in the text.
C23_PrintedIdsAreDeclared ==
    (pc = "links" /\ linkIdx = 1) =>
        typeIdsPrinted = {out[i].id : i \in {j \in DOMAIN out : out[j].k = "node"}}

\* a text whatever the order of its lines and of the rows of a table
Canonical(text) ==
    {[text[i] EXCEPT !.rows = Range(text[i].rows)] : i \in DOMAIN text}

\* C24: a second run of WriteGraph on the same package descriptions returns
\* the text of the first run, the order of nodes, fields and links set
\* aside: both texts hold the same lines, and a table the same rows.
C24_SecondRunSameText ==
    (pc = "done" /\ expected.stored) => Canonical(out) = Canonical(expected.text)

\* C25: when typeName begins with pkgName and a path separator, behind a
\* pointer star or not, relativizeTypePkgName returns typeName without
\* that prefix and adds nothing.
C25_RelativizeStripsPrefix ==
    lab.st = "rel" =>
        /\ HasPrefix(lab.typeName, lab.pkgName \o <<"/">>) =>
              lab.result = TrimPrefix(lab.typeName, lab.pkgName \o <<"/">>)
        /\ HasPrefix(lab.typeName, <<"*">> \o lab.pkgName \o <<"/">>) =>
              lab.result = TrimPrefix(lab.typeName, <<"*">> \o lab.pkgName \o <<"/">>)

\* C26: the link list holds at most one link per source struct id and
\* field name, whatever the import graph.
C26_OneLinkPerField ==
    \A i \in DOMAIN nodeLinks : \A j \in DOMAIN nodeLinks :
        (/\ nodeLinks[i].fromStructTypeId = nodeLinks[j].fromStructTypeId
         /\ nodeLinks[i].fromStructFieldName = nodeLinks[j].fromStructFieldName)
            => i = j

\* C27: in the returned text every edge starts at a struct node the text
\* declares, at a port that node's field table has a row for.
C27_EdgeSourceDeclared ==
    pc = "done" =>
        \A i \in DOMAIN out :
            out[i].k = "edge" =>
                \E j \in DOMAIN out :
                    /\ out[j].k = "node"
                    /\ out[j].kind = "struct"
                    /\ out[j].id = out[i].id
                    /\ \E r \in DOMAIN out[j].rows : out[j].rows[r].port = out[i].port

\* the links of field f of struct s of package q that should point at the
\* node of the named type t: t is declared in a visited package
LinkMisses(q, s, f, t) ==
    {i \in LinksOfField(DeclaredId(q, s), f.name) :
        \E pl \in PlacesOf(t.path, t.name) :
            \/ LinkTargetId(i) # NodeAt(pl).typeId
            \/ LinkTargetId(i) \notin printedIds(tree)}

\* C28: when the walk is over, every link of a struct field whose type is a
\* named type (or a pointer to one) that is declared in a visited package
\* and has a node in the tree points at that node: the id WriteGraph
\* computes for the link is the node's typeId and is among the ids the
\* renderer records, so no placeholder is made for it.
C28_LinkPointsAtRealNode ==
    pc = "print" =>
        \A q \in Range(visits) : \A s \in DOMAIN Decls(q) :
            Kind(TNamed(q, s)) = "Struct" =>
                \A k \in DOMAIN Decls(q)[s].members :
                    (/\ ExternalNamed(Decls(q)[s].members[k].type).tag = "Named"
                     /\ ExternalNamed(Decls(q)[s].members[k].type).path \in Range(visits))
                        => LinkMisses(q, s, Decls(q)[s].members[k],
                                      ExternalNamed(Decls(q)[s].members[k].type)) = {}

\* C29: for a type T that is not basic, the link of a field of type T (or
\* pointer to T) and the link of a field of an unnamed container of T get
\* the same target id from WriteGraph, be T of the struct's package or of
\* another one.
C29_ContainerLinkSameTarget ==
    (/\ fld.st = "both"
     /\ ExternalNamed(fld.f.type.elem).tag = "Named"
     /\ Kind(ExternalNamed(fld.f.type.elem)) # "Basic") =>
        \A i \in DOMAIN fld.links : \A j \in DOMAIN fld.links :
            labelizeName(fld.links[i].toTypePkgName, fld.links[i].toTypeName)
                = labelizeName(fld.links[j].toTypePkgName, fld.links[j].toTypeName)

\* each frame of the recursion is on a package whose path strictly extends
\* the path of the frame that called it
StrictlyDeeper ==
    \A i \in 2..Len(stack) :
        /\ HasPrefix(stack[i].pkg, stack[i - 1].pkg)
        /\ Len(stack[i].pkg) > Len(stack[i - 1].pkg)

RECURSIVE SumOver(_, _)
SumOver(S, cost) ==
    IF S = {} THEN 0
    ELSE LET q == CHOOSE q \in S : TRUE IN cost[q] + SumOver(S \ {q}, cost)

\* a bound on the steps of recursivelyBuildGraph(p): go list, one step per
\* declaration, one per import, the return, and the calls on the imports
\* it visits, each of them listed once and of a path that strictly extends
\* the path of p
RECURSIVE Cost(_)
Cost(p) ==
    LET below == {q \in AllPkgs : HasPrefix(q, p) /\ q # p}
    IN  2 + Cardinality(DOMAIN Decls(p)) + Cardinality(AllPkgs)
          + SumOver(below, [q \in below |-> Cost(q)])

\* the steps frame f has left at most
Remaining(f, imps) ==
    CASE f.phase = "list" -> Cost(f.pkg)
      [] f.phase = "types" ->
            Cardinality(f.todo) + 1
            + SumOver(f.idx..Len(imps[f.pkg]),
                      [j \in f.idx..Len(imps[f.pkg]) |->
                          1 + (IF visitsImport(imps[f.pkg][j], f.pkg)
                               THEN Cost(imps[f.pkg][j]) ELSE 0)])
      [] OTHER -> 0

Measure(st, imps) ==
    SumOver(DOMAIN st, [i \in DOMAIN st |-> Remaining(st[i], imps)])

====
